---- MODULE Spec2Model ----
(***************************************************************************)
(* Model of viewing_bot.py: the bookings table, the three Slack view       *)
(* submission handlers (process_booking, process_unbooking,                *)
(* process_extending) and the websocket screen loop.                       *)
(*                                                                         *)
(* The handlers are asyncio coroutines on one event loop: a handler runs   *)
(* without interruption from one suspension point (an await that does      *)
(* network I/O: ack, chat_postMessage, websocket.send, sleep) to the next. *)
(* Each action below is one such run.                                      *)
(***************************************************************************)
EXTENDS Integers, Sequences, FiniteSets, TLC

VARIABLES bookings, pc, req, resp, ws_pc, ws_frame, modal

vars == <<bookings, pc, req, resp, ws_pc, ws_frame, modal>>

(* ---------------------------- bounds ----------------------------------- *)
MaxStartMinute == 2
MaxDuration == 2
MaxExtension == 1
MaxBookingId == 3
MaxEndTime == 200
MaxDayMinutes == 4

(* ------------------------ program constants ---------------------------- *)
SecondsPerMinute == 60

Handlers == {1, 2}
Clients == {1, 2}

\* (description, user_id) pairs typed into the booking modal.
Submissions == {<<"standup", "U1">>, <<"review", "U2">>}

\* selected_date_time values offered to the handlers: whole minutes and the
\* last second of a minute (the handler accepts any integer).
StartTimes == {m * SecondsPerMinute + o : m \in 0..MaxStartMinute, o \in {0, SecondsPerMinute - 1}}
Durations == 1..MaxDuration
Extensions == 1..MaxExtension
BookingIds == 1..MaxBookingId

\* Clock readings offered to the screen loop: around the minute boundaries
\* where bookings start and end.
Instants == {m * SecondsPerMinute + o : m \in 0..(MaxStartMinute + 1), o \in {0, SecondsPerMinute - 2, SecondsPerMinute - 1}}

(* ------------------------------ helpers -------------------------------- *)
SetMax(S) == CHOOSE x \in S : \A y \in S : y <= x

\* id INTEGER PRIMARY KEY: an INSERT without id takes max(rowid) + 1, or 1
\* in an empty table.
NextRowId(rows) == IF rows = {} THEN 1 ELSE SetMax({r.id : r \in rows}) + 1

NoReq == [op |-> "none", id |-> 0, start_time |-> 0, duration |-> 0, end_time |-> 0, description |-> "", user_id |-> ""]
NoResp == [response_action |-> "none", field |-> "", message |-> <<>>]
AckOk == [response_action |-> "ok", field |-> "", message |-> <<>>]

AckErrors(f, m) == [response_action |-> "errors", field |-> f, message |-> m]

\* Variant of sanitize_booking_input with an exclusive end:
\* end_time = start_time + duration * 60
SanitizeExclusiveEnd(start, duration, description, user) ==
  [op |-> "viewing_booking", id |-> 0, start_time |-> start, duration |-> duration,
   end_time |-> start + duration * SecondsPerMinute,
   description |-> description, user_id |-> user]

\* sanitize_booking_input: end_time = (start_time + duration * 60) - 1
sanitize_booking_input(start, duration, description, user) ==
  [op |-> "viewing_booking", id |-> 0, start_time |-> start, duration |-> duration,
   end_time |-> (start + duration * SecondsPerMinute) - 1,
   description |-> description, user_id |-> user]

\* Variant of the overlap query that pads the candidate by one second on
\* both sides: WHERE NOT (start_time > ? + 1 OR end_time < ? - 1).
ExistingBookingsPadded(rows, start, end) ==
  {r \in rows : ~(r.start_time > end + 1 \/ r.end_time < start - 1)}

\* SELECT * FROM bookings WHERE NOT (start_time >= ? OR end_time <= ?)
\* bound to (end_time, start_time) of the candidate.
ExistingBookings(rows, start, end) ==
  {r \in rows : ~(r.start_time >= end \/ r.end_time <= start)}

\* Variant of the lookup with the wrong comparison: WHERE id <= ?
SelectByIdAtMost(rows, id) == {r \in rows : r.id <= id}

\* SELECT * FROM bookings WHERE id = ?
SelectById(rows, id) == {r \in rows : r.id = id}

\* SELECT * FROM bookings WHERE id != ? AND NOT (start_time >= ? OR end_time <= ?)
\* bound to (extending_id, new_end_time, booking[1]).
OverlappingBookings(rows, id, start, new_end) ==
  {r \in rows : r.id # id /\ ~(r.start_time >= new_end \/ r.end_time <= start)}

\* Variant of the insert that names the row: INSERT OR REPLACE INTO bookings
\* (id, start_time, end_time, description, user_id) VALUES (1, ...)
InsertBookingFirstId(rows, info) ==
  {r \in rows : r.id # 1} \cup {[id |-> 1, start_time |-> info.start_time,
                                 end_time |-> info.end_time, description |-> info.description,
                                 user_id |-> info.user_id]}

\* INSERT INTO bookings (start_time, end_time, description, user_id)
InsertBooking(rows, info) ==
  rows \cup {[id |-> NextRowId(rows), start_time |-> info.start_time,
              end_time |-> info.end_time, description |-> info.description,
              user_id |-> info.user_id]}

\* Variant of the delete with the wrong comparison: WHERE id <= ?
DeleteBookingAtMost(rows, id) == {r \in rows : r.id > id}

\* DELETE FROM bookings WHERE id = ?
DeleteBooking(rows, id) == {r \in rows : r.id # id}

\* Variant of the update without its WHERE clause: UPDATE bookings SET end_time = ?
UpdateEndTimeAllRows(rows, id, new_end) ==
  {[r EXCEPT !.end_time = new_end] : r \in rows}

\* UPDATE bookings SET end_time = ? WHERE id = ?
UpdateEndTime(rows, id, new_end) ==
  {IF r.id = id THEN [r EXCEPT !.end_time = new_end] ELSE r : r \in rows}

(* ------------------------------ screen --------------------------------- *)
\* datetime.now().replace(hour=23, minute=59, second=59, microsecond=0)
TodayEnd(t) == (t - (t % 86400)) + 23 * 3600 + 59 * 60 + 59

\* Variant of the screen query without its upper bound on start_time:
\* SELECT * FROM bookings WHERE end_time >= ? ORDER BY start_time ASC LIMIT 3
GetCurrentThreeNoDayEnd(rows, current_timestamp, today_end_timestamp) ==
  LET matching == {r \in rows : r.end_time >= current_timestamp}
      n == IF Cardinality(matching) < 3 THEN Cardinality(matching) ELSE 3
  IN {s \in [1..n -> matching] :
        /\ \A i, j \in 1..n : i < j => (s[i] # s[j] /\ s[i].start_time <= s[j].start_time)
        /\ \A r \in matching : (\A i \in 1..n : s[i] # r) => (\A i \in 1..n : s[i].start_time <= r.start_time)}

\* SELECT * FROM bookings WHERE end_time >= ? AND start_time <= ?
\* ORDER BY start_time ASC LIMIT 3: every list the query may return (rows
\* with equal start_time come in either order).
get_current_three_bookings(rows, current_timestamp, today_end_timestamp) ==
  LET matching == {r \in rows : r.end_time >= current_timestamp /\ r.start_time <= today_end_timestamp}
      n == IF Cardinality(matching) < 3 THEN Cardinality(matching) ELSE 3
  IN {s \in [1..n -> matching] :
        /\ \A i, j \in 1..n : i < j => (s[i] # s[j] /\ s[i].start_time <= s[j].start_time)
        /\ \A r \in matching : (\A i \in 1..n : s[i] # r) => (\A i \in 1..n : s[i].start_time <= r.start_time)}

\* strftime("%H:%M") of a timestamp rendered in Europe/Amsterdam (UTC+1)
HourMinute(t) == <<((t \div 3600) + 1) % 24, (t \div 60) % 60>>

\* get_readable_start_end_time: the end is rendered one second later
get_readable_start_end_time(start_time, end_time) ==
  <<HourMinute(start_time), HourMinute(end_time + 1)>>

\* Variant of the range test that leaves out both ends: a < x < b
InRangeOpen(x, a, b) == a < x /\ x < b

\* Python: x in range(a, b)
InRange(x, a, b) == a <= x /\ x < b

NullSlot == [present |-> FALSE, index |-> 0, time |-> <<>>, description |-> ""]

\* the dict put in a slot; index is the position of the booking in the list
SlotOf(list, i) ==
  [present |-> TRUE, index |-> i,
   time |-> get_readable_start_end_time(list[i].start_time, list[i].end_time),
   description |-> list[i].description]

EmptyView == [current_booking |-> NullSlot, first_coming_booking |-> NullSlot, second_coming_booking |-> NullSlot]

\* the for loop of bookings_to_view_json from position i on; clock[i] is the
\* datetime.now() read in iteration i.
RECURSIVE ViewLoop(_, _, _, _)
ViewLoop(list, clock, i, info) ==
  IF i > Len(list) THEN info
  ELSE IF ~info.current_booking.present /\ InRange(clock[i], list[i].start_time, list[i].end_time)
       THEN ViewLoop(list, clock, i + 1, [info EXCEPT !.current_booking = SlotOf(list, i)])
  ELSE IF ~info.first_coming_booking.present
       THEN ViewLoop(list, clock, i + 1, [info EXCEPT !.first_coming_booking = SlotOf(list, i)])
  ELSE IF ~info.second_coming_booking.present
       THEN ViewLoop(list, clock, i + 1, [info EXCEPT !.second_coming_booking = SlotOf(list, i)])
  ELSE ViewLoop(list, clock, i + 1, info)

bookings_to_view_json(current_three_bookings, clock) ==
  IF current_three_bookings = <<>> THEN EmptyView
  ELSE ViewLoop(current_three_bookings, clock, 1, EmptyView)

NoFrame == [now |-> 0, list |-> <<>>, clock |-> <<>>, view |-> EmptyView]

(* ------------------------------ modals --------------------------------- *)
\* str.startswith on texts written as tuples of characters
StartsWith(text, prefix) ==
  Len(text) >= Len(prefix) /\ SubSeq(text, 1, Len(prefix)) = prefix

TextBookings == <<"b", "o", "o", "k", "i", "n", "g", "s">>
TextBook == <<"b", "o", "o", "k">>
TextUnbook == <<"u", "n", "b", "o", "o", "k">>
TextExtend == <<"e", "x", "t", "e", "n", "d">>

\* str(n) as the tuple of decimal digits of n, and int(s) back (ParseInt)
RECURSIVE Str(_)
Str(n) == IF n < 10 THEN <<n>> ELSE Str(n \div 10) \o <<n % 10>>

RECURSIVE ParseInt(_)
ParseInt(digits) ==
  IF Len(digits) = 1 THEN digits[1]
  ELSE 10 * ParseInt(SubSeq(digits, 1, Len(digits) - 1)) + digits[Len(digits)]

\* ORDER BY start_time ASC: every order the rows may come in
OrderByStartTime(rows) ==
  {s \in [1..Cardinality(rows) -> rows] :
     \A i, j \in 1..Cardinality(rows) : i < j => (s[i] # s[j] /\ s[i].start_time <= s[j].start_time)}

\* Variant of the user query with the wrong comparison: end_time >= ?
GetAllFutureUserBookingsInclusive(rows, user_id, current_time) ==
  OrderByStartTime({r \in rows : r.user_id = user_id /\ r.end_time >= current_time})

\* SELECT * FROM bookings WHERE user_id = ? AND end_time > ? ORDER BY start_time ASC
get_all_future_user_bookings(rows, user_id, current_time) ==
  OrderByStartTime({r \in rows : r.user_id = user_id /\ r.end_time > current_time})

\* Variant of the week query that takes bookings still running at
\* today_start: WHERE end_time >= ? AND start_time <= ?
GetComingWeekByEndTime(rows, now) ==
  LET today_start_timestamp == now - (now % 86400)
      one_week_later_timestamp == today_start_timestamp + 7 * 86400
  IN OrderByStartTime({r \in rows : r.end_time >= today_start_timestamp
                                     /\ r.start_time <= one_week_later_timestamp})

\* today_start is the midnight before now, one_week_later 7 days after it;
\* SELECT * FROM bookings WHERE start_time >= ? AND start_time <= ? ORDER BY start_time ASC
get_coming_week_bookings(rows, now) ==
  LET today_start_timestamp == now - (now % 86400)
      one_week_later_timestamp == today_start_timestamp + 7 * 86400
  IN OrderByStartTime({r \in rows : r.start_time >= today_start_timestamp
                                     /\ r.start_time <= one_week_later_timestamp})

\* strftime("%B %d") in Europe/Amsterdam (UTC+1), as the number of the day
DateString(t) == (t + 3600) \div 86400

\* get_readable_time_from_unix_time: "%B %d: %H:%M"
get_readable_time_from_unix_time(unix_time) == <<DateString(unix_time), HourMinute(unix_time)>>

\* bookings_to_slack_options: text "{description} - {start}", value str(id)
bookings_to_slack_options(list) ==
  [i \in 1..Len(list) |->
     [text |-> <<list[i].description, get_readable_time_from_unix_time(list[i].start_time)>>,
      value |-> Str(list[i].id)]]

\* the for loop of bookings_to_slack_list from position i on
RECURSIVE SlackListLoop(_, _, _, _)
SlackListLoop(list, i, last_date, blocks) ==
  IF i > Len(list) THEN blocks
  ELSE LET date_string == DateString(list[i].start_time)
           section == [type |-> "section", date |-> 0,
                       text |-> <<get_readable_start_end_time(list[i].start_time, list[i].end_time),
                                  list[i].description>>]
           header == [type |-> "header", date |-> date_string, text |-> <<>>]
           divider == [type |-> "divider", date |-> 0, text |-> <<>>]
       IN IF date_string # last_date
          THEN SlackListLoop(list, i + 1, date_string,
                 blocks \o (IF last_date # -1 THEN <<divider>> ELSE <<>>) \o <<header, section>>)
          ELSE SlackListLoop(list, i + 1, last_date, blocks \o <<section>>)

\* last_date None is written -1
bookings_to_slack_list(list) == SlackListLoop(list, 1, -1, <<>>)

\* the view last opened on the screen of the user a handler serves
NoModal == [view |-> "none", user_id |-> "", now |-> 0, rows |-> <<>>, options |-> <<>>, blocks |-> <<>>]

(* ------------------------------- Init ---------------------------------- *)
Init ==
  /\ bookings = {}
  /\ pc = [h \in Handlers |-> "idle"]
  /\ req = [h \in Handlers |-> NoReq]
  /\ resp = [h \in Handlers |-> NoResp]
  /\ ws_pc = [c \in Clients |-> "idle"]
  /\ ws_frame = [c \in Clients |-> NoFrame]
  /\ modal = [h \in Handlers |-> NoModal]

(* ------------------------------ actions -------------------------------- *)
\* process_booking up to its first suspension: sanitize_booking_input, then
\* add_booking (SELECT, then raise or INSERT + commit), then the call of ack.
process_booking(h, start, duration, description, user) ==
  /\ pc[h] = "idle"
  /\ LET info == sanitize_booking_input(start, duration, description, user)
         existing == ExistingBookings(bookings, info.start_time, info.end_time)
     IN /\ req' = [req EXCEPT ![h] = info]
        /\ IF existing # {}
           THEN \E existing_booking \in existing :
                  /\ resp' = [resp EXCEPT ![h] = AckErrors("booking_datetime",
                                 <<"A booking called", existing_booking.description,
                                   "already exists during that time slot!">>)]
                  /\ pc' = [pc EXCEPT ![h] = "ack_errors"]
                  /\ UNCHANGED bookings
           ELSE /\ bookings' = InsertBooking(bookings, info)
                /\ resp' = [resp EXCEPT ![h] = AckOk]
                /\ pc' = [pc EXCEPT ![h] = "ack"]
  /\ UNCHANGED <<ws_pc, ws_frame, modal>>

\* process_unbooking up to its first suspension: DELETE + commit, then ack.
process_unbooking(h, unbooking_id) ==
  /\ pc[h] = "idle"
  /\ req' = [req EXCEPT ![h] = [NoReq EXCEPT !.op = "viewing_unbooking", !.id = unbooking_id]]
  /\ bookings' = DeleteBooking(bookings, unbooking_id)
  /\ resp' = [resp EXCEPT ![h] = AckOk]
  /\ pc' = [pc EXCEPT ![h] = "ack"]
  /\ UNCHANGED <<ws_pc, ws_frame, modal>>

\* process_extending up to its first suspension: SELECT by id, overlap
\* SELECT, UPDATE + commit, then ack.  req keeps the handler's locals:
\* extending_id, the minutes chosen, the fetched booking and new_end_time.
process_extending(h, extending_id, minutes) ==
  /\ pc[h] = "idle"
  /\ LET extension_in_seconds == minutes * SecondsPerMinute
         found == SelectById(bookings, extending_id)
         none == [NoReq EXCEPT !.op = "viewing_extending", !.id = extending_id, !.duration = minutes]
     IN IF found = {}
        THEN /\ req' = [req EXCEPT ![h] = none]
             /\ resp' = [resp EXCEPT ![h] = AckErrors("extending_select", <<"Booking not found.">>)]
             /\ pc' = [pc EXCEPT ![h] = "ack_errors"]
             /\ UNCHANGED bookings
        ELSE LET booking == CHOOSE r \in found : TRUE
                 new_end_time == booking.end_time + extension_in_seconds
                 overlapping_booking == OverlappingBookings(bookings, extending_id,
                                                            booking.start_time, new_end_time)
             IN /\ new_end_time <= MaxEndTime
                /\ req' = [req EXCEPT ![h] = [none EXCEPT !.start_time = booking.start_time,
                                                !.end_time = new_end_time,
                                                !.description = booking.description,
                                                !.user_id = booking.user_id]]
                /\ IF overlapping_booking # {}
                   THEN /\ resp' = [resp EXCEPT ![h] = AckErrors("extending_select",
                               <<"Cannot extend booking as it overlaps with another booking.">>)]
                        /\ pc' = [pc EXCEPT ![h] = "ack_errors"]
                        /\ UNCHANGED bookings
                   ELSE /\ bookings' = UpdateEndTime(bookings, extending_id, new_end_time)
                        /\ resp' = [resp EXCEPT ![h] = AckOk]
                        /\ pc' = [pc EXCEPT ![h] = "ack"]
  /\ UNCHANGED <<ws_pc, ws_frame, modal>>

\* await ack(response_action="errors", ...) completes; the handler returns.
ack_errors_returns(h) ==
  /\ pc[h] = "ack_errors"
  /\ pc' = [pc EXCEPT ![h] = "idle"]
  /\ req' = [req EXCEPT ![h] = NoReq]
  /\ resp' = [resp EXCEPT ![h] = NoResp]
  /\ UNCHANGED <<bookings, ws_pc, ws_frame, modal>>

\* await ack() completes: Slack closes the submitted view; the handler goes
\* on to client.chat_postMessage.
ack_returns(h) ==
  /\ pc[h] = "ack"
  /\ pc' = [pc EXCEPT ![h] = "chat_postMessage"]
  /\ modal' = [modal EXCEPT ![h] = NoModal]
  /\ UNCHANGED <<bookings, req, resp, ws_pc, ws_frame>>

\* await client.chat_postMessage(...) completes; the handler returns.
chat_postMessage_returns(h) ==
  /\ pc[h] = "chat_postMessage"
  /\ pc' = [pc EXCEPT ![h] = "idle"]
  /\ req' = [req EXCEPT ![h] = NoReq]
  /\ resp' = [resp EXCEPT ![h] = NoResp]
  /\ UNCHANGED <<bookings, ws_pc, ws_frame, modal>>

\* viewing_command up to its first suspension, await ack().
viewing_command(h, text, user) ==
  /\ pc[h] = "idle"
  /\ req' = [req EXCEPT ![h] = [NoReq EXCEPT !.op = "/viewing", !.description = text, !.user_id = user]]
  /\ resp' = [resp EXCEPT ![h] = AckOk]
  /\ pc' = [pc EXCEPT ![h] = "command_ack"]
  /\ UNCHANGED <<bookings, ws_pc, ws_frame, modal>>

\* await ack() completes; viewing_command dispatches on the text and runs
\* send_bookings_list_interface, send_unbook_interface or
\* send_extend_interface up to the suspension in client.views_open; now is
\* the clock reading of the query.
command_ack_returns(h, now) ==
  /\ pc[h] = "command_ack"
  /\ LET user_input == req[h].description
         user_id == req[h].user_id
         open(view) ==
           /\ modal' = [modal EXCEPT ![h] = view]
           /\ pc' = [pc EXCEPT ![h] = "views_open"]
           /\ UNCHANGED <<req, resp>>
         interface(callback_id) ==
           \E user_bookings \in get_all_future_user_bookings(bookings, user_id, now) :
             IF user_bookings # <<>>
             THEN open([view |-> callback_id, user_id |-> user_id, now |-> now,
                        rows |-> user_bookings,
                        options |-> bookings_to_slack_options(user_bookings), blocks |-> <<>>])
             ELSE open([NoModal EXCEPT !.view = "no_bookings", !.user_id = user_id, !.now = now])
     IN IF StartsWith(user_input, TextBookings)
        THEN \E coming_week_bookings \in get_coming_week_bookings(bookings, now) :
               open([view |-> "bookings_list", user_id |-> user_id, now |-> now,
                     rows |-> coming_week_bookings, options |-> <<>>,
                     blocks |-> bookings_to_slack_list(coming_week_bookings)])
        ELSE IF StartsWith(user_input, TextBook)
        THEN open([NoModal EXCEPT !.view = "viewing_booking", !.user_id = user_id, !.now = now])
        ELSE IF StartsWith(user_input, TextUnbook)
        THEN interface("viewing_unbooking")
        ELSE IF StartsWith(user_input, TextExtend)
        THEN interface("viewing_extending")
        ELSE /\ pc' = [pc EXCEPT ![h] = "idle"]
             /\ req' = [req EXCEPT ![h] = NoReq]
             /\ resp' = [resp EXCEPT ![h] = NoResp]
             /\ UNCHANGED modal
  /\ UNCHANGED <<bookings, ws_pc, ws_frame>>

\* await client.views_open(...) completes; the handler returns and the view
\* stays on the user's screen.
views_open_returns(h) ==
  /\ pc[h] = "views_open"
  /\ pc' = [pc EXCEPT ![h] = "idle"]
  /\ req' = [req EXCEPT ![h] = NoReq]
  /\ resp' = [resp EXCEPT ![h] = NoResp]
  /\ UNCHANGED <<bookings, ws_pc, ws_frame, modal>>

\* skip_no_booking: the user clicks okay in the 'no bookings' view
skip_no_booking(h) ==
  /\ pc[h] = "idle"
  /\ modal[h].view = "no_bookings"
  /\ modal' = [modal EXCEPT ![h] = NoModal]
  /\ UNCHANGED <<bookings, pc, req, resp, ws_pc, ws_frame>>

\* skip_bookings_list: the user clicks okay in the 'bookings list' view
skip_bookings_list(h) ==
  /\ pc[h] = "idle"
  /\ modal[h].view = "bookings_list"
  /\ modal' = [modal EXCEPT ![h] = NoModal]
  /\ UNCHANGED <<bookings, pc, req, resp, ws_pc, ws_frame>>

\* the user closes a booking, unbooking or extending view without
\* submitting it; no handler runs
modal_dismissed(h) ==
  /\ pc[h] = "idle"
  /\ modal[h].view \in {"viewing_booking", "viewing_unbooking", "viewing_extending"}
  /\ modal' = [modal EXCEPT ![h] = NoModal]
  /\ UNCHANGED <<bookings, pc, req, resp, ws_pc, ws_frame>>

\* One pass of the while loop of websocket_connection_handler up to the
\* suspension in websocket.send: the query at clock reading now, then the
\* view built with one clock reading per booking; the clock moves on by at
\* most one second during the pass, after the first tick_after readings.
PushIteration(c, now, tick_after) ==
  \E list \in get_current_three_bookings(bookings, now, TodayEnd(now)) :
    LET clock == [i \in 1..Len(list) |-> IF i > tick_after THEN now + 1 ELSE now]
    IN /\ ws_frame' = [ws_frame EXCEPT ![c] = [now |-> now, list |-> list, clock |-> clock,
                                                view |-> bookings_to_view_json(list, clock)]]
       /\ ws_pc' = [ws_pc EXCEPT ![c] = "send"]
       /\ UNCHANGED <<bookings, pc, req, resp, modal>>

\* a screen connects: the handler starts and runs its first pass
websocket_connection_handler(c, now, tick_after) ==
  /\ ws_pc[c] = "idle"
  /\ PushIteration(c, now, tick_after)

\* await websocket.send(json_to_send) completes; the loop sleeps
send_returns(c) ==
  /\ ws_pc[c] = "send"
  /\ ws_pc' = [ws_pc EXCEPT ![c] = "sleep"]
  /\ ws_frame' = [ws_frame EXCEPT ![c] = NoFrame]
  /\ UNCHANGED <<bookings, pc, req, resp, modal>>

\* Variant in which one closed connection ends every handler
SendFailureClosesAll(c) ==
  /\ ws_pc[c] = "send"
  /\ ws_pc' = [d \in Clients |-> "closed"]
  /\ ws_frame' = [d \in Clients |-> NoFrame]
  /\ UNCHANGED <<bookings, pc, req, resp, modal>>

\* websocket.send raises ConnectionClosed; the handler returns and this
\* connection is over (a screen that comes back is a new connection)
send_raises_ConnectionClosed(c) ==
  /\ ws_pc[c] = "send"
  /\ ws_pc' = [ws_pc EXCEPT ![c] = "closed"]
  /\ ws_frame' = [ws_frame EXCEPT ![c] = NoFrame]
  /\ UNCHANGED <<bookings, pc, req, resp, modal>>

\* await asyncio.sleep(10) completes; the next pass runs
sleep_returns(c, now, tick_after) ==
  /\ ws_pc[c] = "sleep"
  /\ PushIteration(c, now, tick_after)

(* --------------------------- specifications ---------------------------- *)
SlackQuiet == \A h \in Handlers : pc[h] = "idle"
ScreenQuiet == \A c \in Clients : ws_pc[c] # "send"

\* One interaction at a time: a view submission is handled to its end while
\* no screen update is in flight, and a screen update between submissions.
Next ==
  \/ ScreenQuiet /\ \E s \in StartTimes, d \in Durations, sub \in Submissions :
       /\ (s + d * SecondsPerMinute) - 1 <= MaxEndTime
       /\ process_booking(1, s, d, sub[1], sub[2])
  \/ ScreenQuiet /\ \E id \in BookingIds : process_unbooking(1, id)
  \/ ScreenQuiet /\ \E id \in BookingIds, m \in Extensions : process_extending(1, id, m)
  \/ ack_errors_returns(1)
  \/ ack_returns(1)
  \/ chat_postMessage_returns(1)
  \/ SlackQuiet /\ \E now \in Instants, k \in 0..3 : websocket_connection_handler(1, now, k)
  \/ send_returns(1)
  \/ send_raises_ConnectionClosed(1)
  \/ SlackQuiet /\ \E now \in Instants, k \in 0..3 : sleep_returns(1, now, k)

Spec == Init /\ [][Next]_vars

\* Two view submissions in flight at once, interleaved at their suspension
\* points; one-minute bookings by one user.
ConcStartTimes == {0, SecondsPerMinute - 1, SecondsPerMinute}

NextConc ==
  \E h \in Handlers :
    \/ \E s \in ConcStartTimes : process_booking(h, s, 1, "standup", "U1")
    \/ \E id \in 1..2 : process_unbooking(h, id)
    \/ \E id \in 1..2 : process_extending(h, id, 1)
    \/ ack_errors_returns(h)
    \/ ack_returns(h)
    \/ chat_postMessage_returns(h)

SpecConc == Init /\ [][NextConc]_vars

\* Bookings of one minute in the last minutes of a day and the first minute
\* of the next day, and clock readings at the boundaries of those minutes;
\* the clock stands still while a view is built.
DayStartTimes == {86400 + k * SecondsPerMinute : k \in (0 - MaxDayMinutes)..0}
DayInstants == {86400 + k * SecondsPerMinute - o : k \in (0 - MaxDayMinutes)..0, o \in {0, 1}}

NextDay ==
  \/ ScreenQuiet /\ \E s \in DayStartTimes : process_booking(1, s, 1, "standup", "U1")
  \/ ScreenQuiet /\ \E id \in BookingIds : process_unbooking(1, id)
  \/ ack_errors_returns(1)
  \/ ack_returns(1)
  \/ chat_postMessage_returns(1)
  \/ SlackQuiet /\ \E now \in DayInstants : websocket_connection_handler(1, now, 3)
  \/ send_returns(1)
  \/ send_raises_ConnectionClosed(1)
  \/ SlackQuiet /\ \E now \in DayInstants : sleep_returns(1, now, 3)

SpecDay == Init /\ [][NextDay]_vars

\* Slash commands of two users between their bookings: bookings around the
\* midnight that starts "today" and around the end of the coming week, and
\* clock readings around that midnight; a view is closed before the next
\* interaction.
CommandBookings == {<<86400 - SecondsPerMinute, 1>>, <<86400 - SecondsPerMinute, 2>>, <<86400, 1>>,
                    <<8 * 86400, 1>>, <<8 * 86400 + SecondsPerMinute, 1>>}
CommandInstants == {86400 - 1, 86400, 86400 + SecondsPerMinute - 2, 86400 + SecondsPerMinute - 1}
CommandTexts == {TextBookings, TextBook, TextUnbook, TextExtend, <<"h", "e", "l", "p">>}
NoModalOpen == \A h \in Handlers : modal[h] = NoModal

NextCommand ==
  \/ NoModalOpen /\ \E b \in CommandBookings, sub \in Submissions : process_booking(1, b[1], b[2], sub[1], sub[2])
  \/ NoModalOpen /\ \E id \in BookingIds : process_unbooking(1, id)
  \/ ack_errors_returns(1)
  \/ ack_returns(1)
  \/ chat_postMessage_returns(1)
  \/ NoModalOpen /\ \E text \in CommandTexts, sub \in Submissions : viewing_command(1, text, sub[2])
  \/ \E now \in CommandInstants : command_ack_returns(1, now)
  \/ views_open_returns(1)
  \/ skip_no_booking(1)
  \/ skip_bookings_list(1)
  \/ modal_dismissed(1)

SpecCommand == Init /\ [][NextCommand]_vars

\* Two screens connected at once, their handlers interleaved with each
\* other and with the view submissions of one user; the clock stands still
\* while a view is built.
ClientStartTimes == {0, SecondsPerMinute}
ClientInstants == {0, SecondsPerMinute - 1, SecondsPerMinute}

NextClients ==
  \/ \E s \in ClientStartTimes : process_booking(1, s, 1, "standup", "U1")
  \/ \E id \in 1..2 : process_unbooking(1, id)
  \/ ack_errors_returns(1)
  \/ ack_returns(1)
  \/ chat_postMessage_returns(1)
  \/ \E c \in Clients, now \in ClientInstants : websocket_connection_handler(c, now, 3)
  \/ \E c \in Clients : send_returns(c)
  \/ \E c \in Clients : send_raises_ConnectionClosed(c)
  \/ \E c \in Clients, now \in ClientInstants : sleep_returns(c, now, 3)

SpecClients == Init /\ [][NextClients]_vars

\* Views that stay open on two devices of one user while other submissions
\* are handled: an unbooking or extending submission carries the value of
\* one of the options its view was opened with.
StaleStartTimes == {0, SecondsPerMinute}

NextStale ==
  \E h \in Handlers :
    \/ /\ NextRowId(bookings) <= MaxBookingId
       /\ \E s \in StaleStartTimes : process_booking(h, s, 1, "standup", "U1")
    \/ /\ modal[h].view = "viewing_unbooking"
       /\ \E i \in 1..Len(modal[h].options) : process_unbooking(h, ParseInt(modal[h].options[i].value))
    \/ /\ modal[h].view = "viewing_extending"
       /\ \E i \in 1..Len(modal[h].options) : process_extending(h, ParseInt(modal[h].options[i].value), 1)
    \/ ack_errors_returns(h)
    \/ ack_returns(h)
    \/ chat_postMessage_returns(h)
    \/ \E text \in {TextUnbook, TextExtend} : viewing_command(h, text, "U1")
    \/ command_ack_returns(h, 0)
    \/ views_open_returns(h)
    \/ skip_no_booking(h)
    \/ modal_dismissed(h)

SpecStale == Init /\ [][NextStale]_vars

(* ------------------------------ properties ----------------------------- *)
\* Two closed intervals [s1, e1] and [s2, e2] share at least one second.
Intersects(s1, e1, s2, e2) == ~(s1 > e2 \/ e1 < s2)

\* Handler h starts on a view submission of kind op in this step.
Entered(h, op) == pc[h] = "idle" /\ pc'[h] # "idle" /\ req'[h].op = op

SetMin(S) == CHOOSE x \in S : \A y \in S : x <= y

\* C1: no two distinct bookings in the table have intersecting closed
\* intervals [start_time, end_time].
NonOverlapInvariant ==
  \A a, b \in bookings :
    a # b => (a.start_time > b.end_time \/ a.end_time < b.start_time)

\* C2: two view submissions in flight at the same time never both commit
\* bookings whose closed intervals intersect.
Committed(h) ==
  /\ pc[h] \in {"ack", "chat_postMessage"}
  /\ req[h].op \in {"viewing_booking", "viewing_extending"}

ConcurrentCommitsDisjoint ==
  \A h1, h2 \in Handlers :
    (h1 # h2 /\ Committed(h1) /\ Committed(h2)) =>
      \A r1, r2 \in bookings :
        ( /\ r1 # r2
          /\ r1.start_time = req[h1].start_time /\ r1.end_time = req[h1].end_time
          /\ r2.start_time = req[h2].start_time /\ r2.end_time = req[h2].end_time )
        => ~Intersects(r1.start_time, r1.end_time, r2.start_time, r2.end_time)

\* C3: a booking request whose closed interval intersects that of a booking
\* in the table is answered with the error naming an intersecting booking's
\* description, and the table is left as it was.
CreateConflictRejected ==
  [][\A h \in Handlers :
       ( /\ Entered(h, "viewing_booking")
         /\ \E r \in bookings : Intersects(r.start_time, r.end_time, req'[h].start_time, req'[h].end_time) )
       => /\ resp'[h].response_action = "errors"
          /\ Len(resp'[h].message) = 3
          /\ \E r \in bookings :
               /\ Intersects(r.start_time, r.end_time, req'[h].start_time, req'[h].end_time)
               /\ resp'[h].message[2] = r.description
          /\ bookings' = bookings]_vars

\* C4: extending booking x by some minutes is refused, writing nothing, when
\* [x.start_time, x.end_time + minutes*60] intersects the closed interval of
\* another booking, and otherwise succeeds and sets end_time to that value.
ExtendRespectsOthers ==
  [][\A h \in Handlers : Entered(h, "viewing_extending") =>
       \A x \in bookings : x.id = req'[h].id =>
         LET new_end == x.end_time + req'[h].duration * SecondsPerMinute
         IN IF \E o \in bookings : o.id # x.id /\ Intersects(x.start_time, new_end, o.start_time, o.end_time)
            THEN /\ resp'[h] = AckErrors("extending_select",
                        <<"Cannot extend booking as it overlaps with another booking.">>)
                 /\ bookings' = bookings
            ELSE /\ resp'[h] = AckOk
                 /\ bookings' = (bookings \ {x}) \cup {[x EXCEPT !.end_time = new_end]}]_vars

\* C5: a booking is never refused because of a booking it only touches at
\* distance one second: a refusal names a booking whose closed interval
\* intersects the candidate's; a candidate adjacent to a booking (starting
\* the second after it ends, or ending the second before it starts) and
\* intersecting none is inserted; an extension whose new end_time is one
\* second before the next booking's start_time and intersects none succeeds.
AdjacencyIsNotOverlap ==
  [][\A h \in Handlers :
       /\ Entered(h, "viewing_booking") =>
            LET c == req'[h]
            IN /\ resp'[h].response_action = "errors" =>
                    /\ Len(resp'[h].message) = 3
                    /\ \E r \in bookings :
                         /\ Intersects(r.start_time, r.end_time, c.start_time, c.end_time)
                         /\ resp'[h].message[2] = r.description
               /\ ( /\ \E r \in bookings : r.end_time + 1 = c.start_time \/ c.end_time + 1 = r.start_time
                    /\ \A r \in bookings : ~Intersects(r.start_time, r.end_time, c.start_time, c.end_time) )
                  => /\ resp'[h] = AckOk
                     /\ \E n \in bookings' :
                          /\ n \notin bookings
                          /\ n.start_time = c.start_time /\ n.end_time = c.end_time
                          /\ bookings' \ {n} = bookings
       /\ Entered(h, "viewing_extending") =>
            \A x \in bookings : x.id = req'[h].id =>
              LET new_end == x.end_time + req'[h].duration * SecondsPerMinute
              IN ( /\ \E o \in bookings : o.id # x.id /\ o.start_time = new_end + 1
                   /\ \A o \in bookings : o.id # x.id =>
                        ~Intersects(x.start_time, new_end, o.start_time, o.end_time) )
                 => /\ resp'[h] = AckOk
                    /\ [x EXCEPT !.end_time = new_end] \in bookings']_vars

\* C5 witness: an extension has just been committed whose new end_time is one
\* second before the start_time of another booking in the table.
AdjacencyWitness ==
  /\ pc[1] = "ack" /\ req[1].op = "viewing_extending" /\ resp[1] = AckOk
  /\ \E x, o \in bookings :
       x.id = req[1].id /\ o.id # x.id /\ x.end_time = req[1].end_time /\ o.start_time = x.end_time + 1

\* C6: extending an id that is not in the table is answered with
\* "Booking not found." and changes no booking.
ExtendMissingNotFound ==
  [][\A h \in Handlers :
       (Entered(h, "viewing_extending") /\ \A r \in bookings : r.id # req'[h].id)
       => /\ resp'[h] = AckErrors("extending_select", <<"Booking not found.">>)
          /\ bookings' = bookings]_vars

\* C6 witness: an extension of an absent id has been refused while the table
\* holds other bookings.
ExtendMissingWitness ==
  /\ pc[1] = "ack_errors" /\ req[1].op = "viewing_extending"
  /\ resp[1].message = <<"Booking not found.">>
  /\ bookings # {}
  /\ \A r \in bookings : r.id # req[1].id

\* C7: cancelling always succeeds; it removes exactly the booking with the
\* given id when there is one, changes nothing when there is none, and
\* cancelling the same id again leaves the table as the first cancel left it.
IdempotentCancel ==
  [][\A h \in Handlers : Entered(h, "viewing_unbooking") =>
       /\ resp'[h] = AckOk
       /\ IF \E x \in bookings : x.id = req'[h].id
          THEN \E x \in bookings : x.id = req'[h].id /\ x \notin bookings' /\ bookings' = bookings \ {x}
          ELSE bookings' = bookings
       /\ {r \in bookings' : r.id # req'[h].id} = bookings']_vars

\* C7 witness: a cancel has been acknowledged and other bookings remain.
CancelWitness ==
  /\ pc[1] = "ack" /\ req[1].op = "viewing_unbooking" /\ resp[1] = AckOk
  /\ Cardinality(bookings) >= 2

\* C8: a successful extension changes the end_time of the booking with the
\* given id and nothing else: its other fields, every other booking and the
\* set of bookings stay as they were.
ExtensionFrame ==
  [][\A h \in Handlers :
       (Entered(h, "viewing_extending") /\ resp'[h].response_action = "ok") =>
         \E x \in bookings : \E y \in bookings' :
           /\ x.id = req'[h].id /\ y.id = x.id
           /\ y.start_time = x.start_time
           /\ y.description = x.description
           /\ y.user_id = x.user_id
           /\ bookings' \ {y} = bookings \ {x}
           /\ Cardinality(bookings') = Cardinality(bookings)]_vars

\* C8 witness: an extension has been committed while the table holds at
\* least two bookings.
ExtensionWitness ==
  /\ pc[1] = "ack" /\ req[1].op = "viewing_extending" /\ resp[1] = AckOk
  /\ Cardinality(bookings) >= 2

\* the clock did not move while the view of client c was built
SteadyClock(c) == \A i \in 1..Len(ws_frame[c].clock) : ws_frame[c].clock[i] = ws_frame[c].now

\* positions of the list whose closed interval contains the instant now
Containing(list, now) ==
  {i \in 1..Len(list) : list[i].start_time <= now /\ now <= list[i].end_time}

\* C9: the view's current booking is the first booking of the list whose
\* closed interval contains now (start_time <= now <= end_time), and is
\* absent when no booking of the list contains now.
ProjectCurrentInclusive ==
  \A c \in Clients :
    (ws_pc[c] = "send" /\ SteadyClock(c)) =>
      LET f == ws_frame[c]
          containing == Containing(f.list, f.now)
      IN IF containing = {}
         THEN ~f.view.current_booking.present
         ELSE /\ f.view.current_booking.present
              /\ f.view.current_booking.index = SetMin(containing)

\* the bookings of the list that did not become current, in list order
UpcomingPositions(f) ==
  SelectSeq([i \in 1..Len(f.list) |-> i],
            LAMBDA i : ~(f.view.current_booking.present /\ f.view.current_booking.index = i))

\* C10, first part: next1 and next2 hold the first and the second booking of
\* the list that did not become current; the three slots hold different
\* bookings and next2 is filled only if next1 is.
UpcomingSlotsInOrder(c) ==
  LET f == ws_frame[c]
      up == UpcomingPositions(f)
      v == f.view
  IN /\ v.first_coming_booking.present = (Len(up) >= 1)
     /\ v.first_coming_booking.present => v.first_coming_booking.index = up[1]
     /\ v.second_coming_booking.present = (Len(up) >= 2)
     /\ v.second_coming_booking.present => v.second_coming_booking.index = up[2]
     /\ v.second_coming_booking.present => v.first_coming_booking.present
     /\ \A s1, s2 \in {<<"c", v.current_booking>>, <<"f", v.first_coming_booking>>, <<"s", v.second_coming_booking>>} :
          (s1[1] # s2[1] /\ s1[2].present /\ s2[2].present) => s1[2].index # s2[2].index

\* C10, second part: three bookings, the first containing now and the other
\* two starting after now, give current = first, next1 = second, next2 = third.
ThreeBookingsExample(c) ==
  LET f == ws_frame[c]
  IN ( /\ Len(f.list) = 3
       /\ f.list[1].start_time <= f.now /\ f.now <= f.list[1].end_time
       /\ f.list[2].start_time > f.now
       /\ f.list[3].start_time > f.now )
     => /\ f.view.current_booking.present /\ f.view.current_booking.index = 1
        /\ f.view.first_coming_booking.present /\ f.view.first_coming_booking.index = 2
        /\ f.view.second_coming_booking.present /\ f.view.second_coming_booking.index = 3

\* C10: the upcoming slots are filled in order with the bookings that did
\* not become current, and the three-booking example gives current, next1,
\* next2 = first, second, third.
ProjectUpcomingSlots ==
  \A c \in Clients :
    (ws_pc[c] = "send" /\ SteadyClock(c)) => (UpcomingSlotsInOrder(c) /\ ThreeBookingsExample(c))

\* the last second of the calendar day of the instant now
DayEnd(now) == (now - (now % 86400)) + 86399

\* the bookings that are running or still to come today at the instant now
ActiveOrUpcoming(now) == {r \in bookings : r.end_time >= now /\ r.start_time <= DayEnd(now)}

\* C11: the list pulled for the screen at the instant now holds at most 3
\* bookings in ascending start_time order, each with end_time >= now and
\* start_time <= the end of now's day, and they are the earliest-starting
\* such bookings: all of them when there are at most 3, and otherwise no
\* such booking left out starts before a listed one.
CurrentAndNextTwo ==
  \A c \in Clients : ws_pc[c] = "send" =>
    LET l == ws_frame[c].list
        q == ActiveOrUpcoming(ws_frame[c].now)
    IN /\ Len(l) <= 3
       /\ Len(l) = (IF Cardinality(q) < 3 THEN Cardinality(q) ELSE 3)
       /\ \A i \in 1..Len(l) : l[i] \in q
       /\ \A i, j \in 1..Len(l) : i < j => (l[i] # l[j] /\ l[i].start_time <= l[j].start_time)
       /\ \A r \in q : (\A i \in 1..Len(l) : l[i] # r) => \A i \in 1..Len(l) : l[i].start_time <= r.start_time

\* C11 witness: three bookings are listed while the table also holds a
\* fourth one still to come today and one that starts tomorrow.
CurrentAndNextTwoWitness ==
  /\ ws_pc[1] = "send"
  /\ Len(ws_frame[1].list) = 3
  /\ \E r \in bookings : r.start_time > DayEnd(ws_frame[1].now)
  /\ \E r \in ActiveOrUpcoming(ws_frame[1].now) : \A i \in 1..3 : ws_frame[1].list[i] # r

\* the rows of a list are exactly the bookings of the set, each once, in
\* ascending start_time order
ListsExactly(list, set) ==
  /\ Len(list) = Cardinality(set)
  /\ \A r \in set : \E i \in 1..Len(list) : list[i] = r
  /\ \A i \in 1..Len(list) : list[i] \in set
  /\ \A i, j \in 1..Len(list) : i < j => list[i].start_time <= list[j].start_time

\* C12: the bookings offered to a user for unbooking or extending at the
\* instant now are exactly the bookings of that user with end_time > now, in
\* ascending start_time order.
FutureOnlyFilter ==
  \A h \in Handlers :
    (pc[h] = "views_open" /\ modal[h].view \in {"viewing_unbooking", "viewing_extending", "no_bookings"}) =>
      ListsExactly(modal[h].rows,
                   {r \in bookings : r.user_id = modal[h].user_id /\ r.end_time > modal[h].now})

\* C12 witness: a booking ending at now + 1 is listed while the table also
\* holds a booking of the same user that ended by now and a later booking of
\* another user.
FutureOnlyWitness ==
  /\ pc[1] = "views_open" /\ modal[1].view = "viewing_unbooking"
  /\ \E i \in 1..Len(modal[1].rows) : modal[1].rows[i].end_time = modal[1].now + 1
  /\ \E r \in bookings : r.user_id = modal[1].user_id /\ r.end_time <= modal[1].now
  /\ \E r \in bookings : r.user_id # modal[1].user_id /\ r.end_time > modal[1].now

\* the midnight that starts the day of the instant now
DayStart(now) == now - (now % 86400)

\* C13: the bookings listed for the coming week are exactly the bookings
\* with range_start <= start_time <= range_end, whatever their end_time, in
\* ascending start_time order; range_start is today's midnight and range_end
\* seven days later.
ListRange ==
  \A h \in Handlers :
    (pc[h] = "views_open" /\ modal[h].view = "bookings_list") =>
      ListsExactly(modal[h].rows,
                   {r \in bookings : DayStart(modal[h].now) <= r.start_time
                                     /\ r.start_time <= DayStart(modal[h].now) + 7 * 86400})

\* C13 witness: a booking starting exactly at range_end is listed while the
\* table also holds one starting after range_end and one that started before
\* range_start and is still running at range_start.
ListRangeWitness ==
  /\ pc[1] = "views_open" /\ modal[1].view = "bookings_list"
  /\ \E i \in 1..Len(modal[1].rows) : modal[1].rows[i].start_time = DayStart(modal[1].now) + 7 * 86400
  /\ \E r \in bookings : r.start_time > DayStart(modal[1].now) + 7 * 86400
  /\ \E r \in bookings : r.start_time < DayStart(modal[1].now) /\ r.end_time >= DayStart(modal[1].now)

\* the rows of a table that carry the given id
WithId(rows, id) == {r \in rows : r.id = id}

\* C14: in every step a booking id either keeps its row, or gets a row by a
\* successful booking submission, or loses its row by an unbooking
\* submission for that id, or has its row changed by a successful extending
\* submission for that id, which makes end_time strictly greater; the
\* start_time of a row that stays never changes and its end_time never
\* decreases.
Lifecycle ==
  [][\A id \in {r.id : r \in bookings \cup bookings'} :
       LET before == WithId(bookings, id)
           after == WithId(bookings', id)
       IN /\ Cardinality(after) <= 1
          /\ (before = {} /\ after # {}) =>
               \E h \in Handlers : Entered(h, "viewing_booking") /\ resp'[h] = AckOk
          /\ (before # {} /\ after = {}) =>
               \E h \in Handlers : Entered(h, "viewing_unbooking") /\ req'[h].id = id
          /\ (before # {} /\ after # {} /\ before # after) =>
               /\ \E h \in Handlers : /\ Entered(h, "viewing_extending")
                                      /\ req'[h].id = id /\ req'[h].duration >= 1
                                      /\ resp'[h] = AckOk
               /\ \A x \in before : \A y \in after : y.end_time > x.end_time
          /\ \A x \in before : \A y \in after :
               y.start_time = x.start_time /\ y.end_time >= x.end_time]_vars

\* C14 witness: the only booking of the table has just been extended.
LifecycleWitness ==
  /\ pc[1] = "ack" /\ req[1].op = "viewing_extending" /\ resp[1] = AckOk
  /\ Cardinality(bookings) = 1
  /\ \E r \in bookings : /\ r.id = req[1].id
                         /\ r.start_time = req[1].start_time
                         /\ r.end_time = req[1].end_time

\* C15: a booking created for (start, duration) is stored with
\* end_time = start + duration * 60 - 1, and every step leaves a table in
\* which every booking has start_time <= end_time.
WellFormedIntervals ==
  [][/\ \A r \in bookings' : r.start_time <= r.end_time
     /\ \A h \in Handlers :
          (Entered(h, "viewing_booking") /\ resp'[h] = AckOk) =>
            \E r \in bookings' \ bookings :
              /\ bookings' = bookings \cup {r}
              /\ r.start_time = req'[h].start_time
              /\ r.end_time = (req'[h].start_time + req'[h].duration * SecondsPerMinute) - 1]_vars

\* C15 witness: a two-minute booking has just been stored next to another
\* booking.
WellFormedWitness ==
  /\ pc[1] = "ack" /\ req[1].op = "viewing_booking" /\ req[1].duration = 2
  /\ \E r \in bookings : /\ r.start_time = req[1].start_time
                         /\ r.end_time = r.start_time + 2 * SecondsPerMinute - 1
  /\ Cardinality(bookings) >= 2

\* the handler of client c can take its next step
LoopCanStep(c) ==
  \/ ws_pc[c] = "send" /\ ENABLED send_returns(c)
  \/ ws_pc[c] = "sleep" /\ ENABLED (\E now \in ClientInstants : sleep_returns(c, now, 3))

\* C16: every screen has its own handler loop; a step of a loop never
\* changes the bookings table; when a send to client c fails, the loop of c
\* is over for good and holds no frame to send, and the loop of every other
\* client is where it was and can take its next step.
SinkIsolation ==
  [][/\ (ws_pc' # ws_pc \/ ws_frame' # ws_frame) => bookings' = bookings
     /\ \A c \in Clients :
          /\ ws_pc[c] = "closed" => (ws_pc'[c] = "closed" /\ ws_frame'[c] = NoFrame)
          /\ (ws_pc[c] = "send" /\ ws_pc'[c] = "closed") =>
               /\ ws_frame'[c] = NoFrame
               /\ \A d \in Clients \ {c} :
                    /\ ws_pc'[d] = ws_pc[d] /\ ws_frame'[d] = ws_frame[d]
                    /\ ws_pc[d] \in {"send", "sleep"} => LoopCanStep(d)]_vars

\* C16 witness: the connection of client 1 is closed while client 2 is
\* being sent a view with a booking in it, and the table is not empty.
SinkIsolationWitness ==
  /\ ws_pc[1] = "closed"
  /\ ws_pc[2] = "send" /\ ws_frame[2].list # <<>>
  /\ bookings # {}

\* row x of the table is the booking that a view listed as m
SameBooking(x, m) ==
  /\ x.id = m.id /\ x.start_time = m.start_time
  /\ x.description = m.description /\ x.user_id = m.user_id

\* a step in which a handler takes an unbooking or extending submission
\* carrying an id that its view listed removes or changes no booking other
\* than the one the view listed
SubmissionHitsListed ==
  \A h \in Handlers :
    (Entered(h, "viewing_unbooking") \/ Entered(h, "viewing_extending")) =>
      \A i \in 1..Len(modal[h].rows) :
        modal[h].rows[i].id = req'[h].id =>
          \A x \in bookings \ bookings' : SameBooking(x, modal[h].rows[i])

\* C17: an id that an open view lists and that is no longer in the table
\* (its booking was cancelled) is never given to a new booking, and an
\* unbooking or extending submission carrying an id that its view listed
\* removes or changes no booking other than the one the view listed.
NoIdReuse ==
  [][/\ \A r \in bookings' :
          WithId(bookings, r.id) = {} =>
            \A h \in Handlers : \A i \in 1..Len(modal[h].rows) : modal[h].rows[i].id # r.id
     /\ SubmissionHitsListed]_vars

\* C18: a booking of the table with start_time <= now < end_time is the
\* current booking of the view built at now, however many bookings the
\* table holds.
InProgressIsCurrent ==
  \A c \in Clients :
    (ws_pc[c] = "send" /\ SteadyClock(c)) =>
      LET f == ws_frame[c]
      IN \A r \in bookings :
           (r.start_time <= f.now /\ f.now < r.end_time) =>
             /\ f.view.current_booking.present
             /\ f.list[f.view.current_booking.index] = r

\* C18 witness: the booking in progress starts at now and comes second in
\* the list, after a booking whose last second is now, and is current.
InProgressWitness ==
  /\ ws_pc[1] = "send" /\ SteadyClock(1)
  /\ Len(ws_frame[1].list) >= 2
  /\ ws_frame[1].list[1].end_time = ws_frame[1].now
  /\ ws_frame[1].list[2].start_time = ws_frame[1].now
  /\ ws_frame[1].view.current_booking.present
  /\ ws_frame[1].view.current_booking.index = 2

\* C19: a booking that the view built at now reports as first or second
\* coming booking starts after now.
UpcomingStartAfterNow ==
  \A c \in Clients :
    (ws_pc[c] = "send" /\ SteadyClock(c)) =>
      LET f == ws_frame[c]
      IN \A slot \in {f.view.first_coming_booking, f.view.second_coming_booking} :
           slot.present => f.list[slot.index].start_time > f.now

====
